---- MODULE Spec2Model ----
(***************************************************************************)
(* TF-IDF keyword extraction for Hansard documents                         *)
(* (fedmcp_pipeline/utils/keyword_extraction.py).                          *)
(*                                                                         *)
(* Representation.                                                         *)
(*  - A text (str) is the sequence of its raw words, the maximal runs of   *)
(*    [\w\-] characters; "" is << >>.  An Optional[str] is NoneValue or    *)
(*    Str(text).                                                           *)
(*  - A dict whose iteration order the code relies on (the term-frequency  *)
(*    and score dicts) is the sequence of its items in insertion order;    *)
(*    a dict that is only looked up (corpus_term_counts, idf) is a         *)
(*    function on its key set.                                             *)
(*  - A logarithm is a fixed-point integer, 10^6 units per 1.0; a TF and   *)
(*    a raw score are fractions [num, den]; a weight, rounded to 3         *)
(*    decimals by the code, is an integer number of thousandths (1.0 is    *)
(*    1000).  On every input within the bounds below the ranking and the   *)
(*    weights so computed are those of the float arithmetic of the code.   *)
(*  - A call's outcome is Returned(value) or Raised(exception).            *)
(***************************************************************************)
EXTENDS Integers, Sequences, FiniteSets, TLC

\* pc: "start" before the call, "done" after it; args: the call's arguments;
\* ret: its outcome; locals: the callee's local variables when it ended
VARIABLES pc, args, ret, locals

vars == <<pc, args, ret, locals>>

(***************************************************************************)
(* Bounds of the explored inputs.                                          *)
(***************************************************************************)
\* longest document text, in raw words
MaxLen == 3
\* largest total_documents; document counts range over 0..MaxDocs+1
MaxDocs == 3
\* longest session corpus handed to build_session_corpus
MaxCorpus == 3
\* longest session corpus handed to extract_document_keywords
MaxSession == 2

(***************************************************************************)
(* Python values.                                                          *)
(***************************************************************************)
NoneValue == [is_none |-> TRUE]

Str(s) == [is_none |-> FALSE, str |-> s]

\* truth value of an Optional[str]: None and "" are falsy
Truthy(v) == (~v.is_none) /\ v.str # << >>

Returned(v) == [exc |-> "none", value |-> v]

Raised(e) == [exc |-> e, value |-> << >>]

Range(s) == {s[i] : i \in DOMAIN s}

Min(a, b) == IF a <= b THEN a ELSE b

Max(a, b) == IF a >= b THEN a ELSE b

\* s[:n] of a Python list
PySlicePrefix(s, n) ==
    IF n >= 0 THEN SubSeq(s, 1, Min(n, Len(s)))
    ELSE SubSeq(s, 1, Max(Len(s) + n, 0))

(***************************************************************************)
(* Tokenizer.                                                              *)
(***************************************************************************)
\* the raw words the explored texts are made of
RawWords ==
    {"Climate", "climate", "change", "policy", "the", "The", "Speaker's",
     "42", "of", "ab"}

\* the members of the stop-word set among the lowercased raw words
PARLIAMENTARY_STOPWORDS == {"the", "of", "speaker"}

\* str.lower() of a raw word
Lower(w) ==
    CASE w = "Climate" -> "climate"
      [] w = "The" -> "the"
      [] w = "Speaker's" -> "speaker's"
      [] OTHER -> w

\* re.sub(r"'s\b", '', text) on a lowercased raw word
StripPossessive(w) == IF w = "speaker's" THEN "speaker" ELSE w

\* len(token)
TokenLen(w) ==
    CASE w \in {"ab", "of", "42"} -> 2
      [] w \in {"the", "The"} -> 3
      [] w = "change" -> 6
      [] w = "policy" -> 6
      [] w \in {"climate", "Climate", "speaker"} -> 7
      [] OTHER -> 9

\* token.isdigit()
IsDigit(w) == w = "42"

KeepToken(token) ==
    /\ token \notin PARLIAMENTARY_STOPWORDS
    /\ TokenLen(token) >= 3
    /\ ~IsDigit(token)

tokenize_text(text) ==
    IF text = << >> THEN << >>
    ELSE LET lowered == [i \in DOMAIN text |-> Lower(text[i])]
             stripped == [i \in DOMAIN lowered |-> StripPossessive(lowered[i])]
         IN  SelectSeq(stripped, KeepToken)

(***************************************************************************)
(* Term frequency.                                                         *)
(***************************************************************************)
\* keys of Counter(tokens), in insertion (first occurrence) order
CounterKeys(tokens) ==
    LET F[i \in 0..Len(tokens)] ==
            IF i = 0 THEN << >>
            ELSE IF tokens[i] \in Range(F[i - 1]) THEN F[i - 1]
            ELSE Append(F[i - 1], tokens[i])
    IN  F[Len(tokens)]

\* Counter(tokens)[term]
CounterCount(tokens, term) ==
    Cardinality({i \in DOMAIN tokens : tokens[i] = term})

calculate_term_frequency(tokens) ==
    IF tokens = << >> THEN << >>
    ELSE LET total_tokens == Len(tokens)
             keys == CounterKeys(tokens)
         IN  [i \in DOMAIN keys |->
                 [term |-> keys[i],
                  tf |-> [num |-> CounterCount(tokens, keys[i]),
                          den |-> total_tokens]]]

(***************************************************************************)
(* Inverse document frequency.                                             *)
(***************************************************************************)
\* ln(k) for k = 1..10 in millionths; the entry of a product is the sum of
\* the entries of its factors, as in real arithmetic
LnTable ==
    <<0, 693147, 1098612, 1386294, 1609438, 1791759, 1945910, 2079441,
      2197224, 2302585>>

\* the ratio inverted: math.log(d / n)
math_log_inverted(n, d) == LnTable[d] - LnTable[n]

\* math.log(n / d), for n > 0 and d > 0
math_log(n, d) == LnTable[n] - LnTable[d]

\* math.log(n), for n > 0
math_log1(n) == LnTable[n]

EmptyDict == [t \in {} |-> 0]

\* math.log(x) raises ValueError("math domain error") for x <= 0
MathDomainError(n) == n <= 0

calculate_inverse_document_frequency(corpus_term_counts, total_documents) ==
    IF total_documents = 0 THEN EmptyDict
    ELSE [term \in {t \in DOMAIN corpus_term_counts : corpus_term_counts[t] > 0}
              |-> math_log(total_documents, corpus_term_counts[term])]

(***************************************************************************)
(* TF-IDF scorer.                                                          *)
(***************************************************************************)
\* the order of two raw scores (fractions with positive denominators)
ScoreGeq(a, b) == a.num * b.den >= b.num * a.den

\* idf.get(term, math.log(total_documents)), the default already evaluated
IdfGet(idf, term, default) ==
    IF term \in DOMAIN idf THEN idf[term] ELSE default

\* tf_score * idf_score
TfTimesIdf(tf_score, idf_score) ==
    [num |-> tf_score.num * idf_score, den |-> tf_score.den]

\* sorted(items, key=score)[::-1]: descending, items of equal score reversed
SortedByScoreThenReversed(items) ==
    LET Insert(acc, x) ==
            LET k == Cardinality({j \in DOMAIN acc :
                                     ~ScoreGeq(x.score, acc[j].score)})
            IN  SubSeq(acc, 1, k) \o <<x>> \o SubSeq(acc, k + 1, Len(acc))
        F[i \in 0..Len(items)] ==
            IF i = 0 THEN << >> ELSE Insert(F[i - 1], items[i])
    IN  F[Len(items)]

\* sorted(items, key=score): ascending, reverse=True left out
SortedByScoreAscending(items) ==
    LET Insert(acc, x) ==
            LET k == Cardinality({j \in DOMAIN acc :
                                     ScoreGeq(x.score, acc[j].score)})
            IN  SubSeq(acc, 1, k) \o <<x>> \o SubSeq(acc, k + 1, Len(acc))
        F[i \in 0..Len(items)] ==
            IF i = 0 THEN << >> ELSE Insert(F[i - 1], items[i])
    IN  F[Len(items)]

\* sorted(items, key=score, reverse=True): a stable sort, so items of equal
\* score keep their order
SortedByScoreReverse(items) ==
    LET Insert(acc, x) ==
            LET k == Cardinality({j \in DOMAIN acc :
                                     ScoreGeq(acc[j].score, x.score)})
            IN  SubSeq(acc, 1, k) \o <<x>> \o SubSeq(acc, k + 1, Len(acc))
        F[i \in 0..Len(items)] ==
            IF i = 0 THEN << >> ELSE Insert(F[i - 1], items[i])
    IN  F[Len(items)]

\* round(p / q, 3) in thousandths, for q > 0: the quotient to three
\* decimals by long division, then to nearest, ties to even
Round3(p, q) ==
    LET f0 == p \div q
        r0 == p - f0 * q
        d1 == (10 * r0) \div q
        r1 == 10 * r0 - d1 * q
        d2 == (10 * r1) \div q
        r2 == 10 * r1 - d2 * q
        d3 == (10 * r2) \div q
        r3 == 10 * r2 - d3 * q
        f == 1000 * f0 + 100 * d1 + 10 * d2 + d3
    IN  IF 2 * r3 < q THEN f
        ELSE IF 2 * r3 > q THEN f + 1
        ELSE IF f % 2 = 0 THEN f ELSE f + 1

\* round(score / max_weight, 3), for max_weight > 0
NormalizedWeight(score, max_weight) ==
    Round3(score.num * max_weight.den, score.den * max_weight.num)

\* add-one smoothing in place of the default: math.log(total_documents + 1)
FallbackIdfSmoothed(total_documents) == math_log1(total_documents + 1)

\* the default of idf.get: math.log(total_documents)
FallbackIdf(total_documents) == math_log1(total_documents)

\* the loop over tf.items(): the score dict, in tf's insertion order
tfidf_scores_of(tf, idf, total_documents) ==
    [i \in DOMAIN tf |->
        [term |-> tf[i].term,
         score |-> TfTimesIdf(tf[i].tf,
                       IdfGet(idf, tf[i].term, FallbackIdf(total_documents)))]]

\* sorted(tfidf_scores.items(), key=lambda x: x[1], reverse=True)[:top_n]
sorted_terms_of(tfidf_scores, top_n) ==
    PySlicePrefix(SortedByScoreReverse(tfidf_scores), top_n)

\* the normalisation of the retained scores to the list of keywords
keywords_of(sorted_terms) ==
    IF sorted_terms # << >>
    THEN LET max_weight == sorted_terms[1].score
         IN  IF max_weight.num > 0
             THEN [i \in DOMAIN sorted_terms |->
                      [word |-> sorted_terms[i].term,
                       weight |-> NormalizedWeight(sorted_terms[i].score,
                                                   max_weight)]]
             ELSE [i \in DOMAIN sorted_terms |->
                      [word |-> sorted_terms[i].term, weight |-> 0]]
    ELSE << >>

\* the call's outcome with its local variables when it ended
extract_keywords_tfidf_frame(document_text, corpus_term_counts, total_documents, top_n) ==
    LET tokens == tokenize_text(document_text)
        none == [tokens |-> tokens, tfidf_scores |-> << >>,
                 sorted_terms |-> << >>]
    IN  IF tokens = << >> THEN [ret |-> Returned(<< >>), locals |-> none]
        ELSE
        LET tf == calculate_term_frequency(tokens)
            idf == calculate_inverse_document_frequency(
                       corpus_term_counts, total_documents)
        IN  \* the default math.log(total_documents) is evaluated on each
            \* iteration of the loop over tf, which is not empty here
            IF MathDomainError(total_documents)
            THEN [ret |-> Raised("ValueError"), locals |-> none]
            ELSE
            LET tfidf_scores == tfidf_scores_of(tf, idf, total_documents)
                sorted_terms == sorted_terms_of(tfidf_scores, top_n)
            IN  [ret |-> Returned(keywords_of(sorted_terms)),
                 locals |-> [tokens |-> tokens,
                             tfidf_scores |-> tfidf_scores,
                             sorted_terms |-> sorted_terms]]

extract_keywords_tfidf(document_text, corpus_term_counts, total_documents, top_n) ==
    extract_keywords_tfidf_frame(document_text, corpus_term_counts,
                                 total_documents, top_n).ret

(***************************************************************************)
(* Corpus builder.                                                         *)
(***************************************************************************)
\* a document without a 'text' key, and one with it
NoTextDoc == [has_text |-> FALSE, text |-> NoneValue]

Doc(t) == [has_text |-> TRUE, text |-> t]

\* doc.get('text', '')
DocGetText(doc) == IF doc.has_text THEN doc.text ELSE Str(<< >>)

\* set(tokens) left out: every occurrence of a term is counted
CountEveryOccurrence(counter, tokens) ==
    [t \in (DOMAIN counter) \cup Range(tokens) |->
        (IF t \in DOMAIN counter THEN counter[t] ELSE 0)
        + CounterCount(tokens, t)]

\* unique_terms = set(tokens)
\* for term in unique_terms: corpus_term_counts[term] += 1
CountDocumentTerms(counter, tokens) ==
    LET unique_terms == Range(tokens)
    IN  [t \in (DOMAIN counter) \cup unique_terms |->
            (IF t \in DOMAIN counter THEN counter[t] ELSE 0)
            + (IF t \in unique_terms THEN 1 ELSE 0)]

build_session_corpus(session_documents) ==
    LET F[i \in 0..Len(session_documents)] ==
            IF i = 0 THEN EmptyDict
            ELSE LET text == DocGetText(session_documents[i])
                 IN  IF ~Truthy(text) THEN F[i - 1]
                     ELSE CountDocumentTerms(F[i - 1],
                              tokenize_text(text.str))
    IN  F[Len(session_documents)]

(***************************************************************************)
(* Bilingual orchestrator.                                                 *)
(***************************************************************************)
\* json.dumps(keywords_list, ensure_ascii=False): a str holding the array
json_dumps(keywords_list) == [is_none |-> FALSE, json_array |-> keywords_list]

\* the guard on the keyword list left out
SerializedAlways(keywords_list) == json_dumps(keywords_list)

\* if keywords_list: keywords = json.dumps(keywords_list, ...), else None
SerializedOrNone(keywords_list) ==
    IF keywords_list # << >> THEN json_dumps(keywords_list) ELSE NoneValue

\* one language's block: the keywords it leaves (None or a JSON str), or
\* the exception that left it
LanguageBlock(document_text, session_corpus, top_n) ==
    IF Truthy(document_text) /\ session_corpus # << >>
    THEN LET corpus_counts == build_session_corpus(session_corpus)
             keywords_list == extract_keywords_tfidf(document_text.str,
                                  corpus_counts, Len(session_corpus), top_n)
         IN  IF keywords_list.exc # "none"
             THEN [exc |-> keywords_list.exc, keywords |-> NoneValue,
                   attempted |-> TRUE, keywords_list |-> << >>]
             ELSE [exc |-> "none",
                   keywords |-> SerializedOrNone(keywords_list.value),
                   attempted |-> TRUE,
                   keywords_list |-> keywords_list.value]
    ELSE [exc |-> "none", keywords |-> NoneValue, attempted |-> FALSE,
          keywords_list |-> << >>]

extract_document_keywords_frame(document_text_en, document_text_fr, session_corpus_en, session_corpus_fr, top_n) ==
    LET en == LanguageBlock(document_text_en, session_corpus_en, top_n)
        fr == LanguageBlock(document_text_fr, session_corpus_fr, top_n)
    IN  IF en.exc # "none" THEN [ret |-> Raised(en.exc), locals |-> <<en>>]
        ELSE IF fr.exc # "none"
        THEN [ret |-> Raised(fr.exc), locals |-> <<en, fr>>]
        ELSE [ret |-> Returned(<<en.keywords, fr.keywords>>),
              locals |-> <<en, fr>>]

(***************************************************************************)
(* extract_keywords_tfidf on bounded inputs.                               *)
(***************************************************************************)
\* the raw words of the scored document texts
ScoredWords == {"Climate", "change", "policy", "the"}

\* the terms a corpus map may count; "change" is never counted, so it gets
\* the default of idf.get whenever a document holds it
Terms == {"climate", "policy"}

SeqsUpTo(S, n) == UNION {[1..k -> S] : k \in 0..n}

DocCounts == 0..(MaxDocs + 1)

CorpusMaps == UNION {[K -> DocCounts] : K \in SUBSET Terms}

TopNs == (0 - 2)..3

TfidfArgs ==
    [document_text : SeqsUpTo(ScoredWords, MaxLen),
     corpus_term_counts : CorpusMaps,
     total_documents : 0..MaxDocs,
     top_n : TopNs]

NoReturn == Returned(<< >>)

Init ==
    /\ pc = "start"
    /\ args \in TfidfArgs
    /\ ret = NoReturn
    /\ locals = << >>

CallExtractKeywordsTfidf ==
    /\ pc = "start"
    /\ pc' = "done"
    /\ \E frame \in {extract_keywords_tfidf_frame(args.document_text,
                          args.corpus_term_counts, args.total_documents,
                          args.top_n)} :
           ret' = frame.ret /\ locals' = frame.locals
    /\ UNCHANGED args

Next == CallExtractKeywordsTfidf

Spec == Init /\ [][Next]_vars

(***************************************************************************)
(* calculate_inverse_document_frequency on bounded inputs.                 *)
(***************************************************************************)
IdfMaps ==
    UNION {[K -> DocCounts] : K \in SUBSET {"climate", "change", "policy"}}

IdfArgs ==
    [corpus_term_counts : IdfMaps, total_documents : 0..MaxDocs]

InitIdf ==
    /\ pc = "start"
    /\ args \in IdfArgs
    /\ ret = NoReturn
    /\ locals = << >>

CallCalculateIdf ==
    /\ pc = "start"
    /\ pc' = "done"
    /\ ret' = Returned(calculate_inverse_document_frequency(
                  args.corpus_term_counts, args.total_documents))
    /\ UNCHANGED <<args, locals>>

NextIdf == CallCalculateIdf

SpecIdf == InitIdf /\ [][NextIdf]_vars

(***************************************************************************)
(* build_session_corpus on bounded inputs.                                 *)
(***************************************************************************)
CorpusDocs ==
    {NoTextDoc, Doc(NoneValue), Doc(Str(<< >>)),
     Doc(Str(<<"Climate", "climate", "policy">>)),
     Doc(Str(<<"policy", "The", "42">>)),
     Doc(Str(<<"the", "ab", "Speaker's">>)),
     Doc(Str(<<"change", "policy", "change">>))}

CorpusArgs == [session_documents : SeqsUpTo(CorpusDocs, MaxCorpus)]

InitCorpus ==
    /\ pc = "start"
    /\ args \in CorpusArgs
    /\ ret = NoReturn
    /\ locals = << >>

CallBuildSessionCorpus ==
    /\ pc = "start"
    /\ pc' = "done"
    /\ ret' = Returned(build_session_corpus(args.session_documents))
    /\ UNCHANGED <<args, locals>>

NextCorpus == CallBuildSessionCorpus

SpecCorpus == InitCorpus /\ [][NextCorpus]_vars

(***************************************************************************)
(* extract_document_keywords on bounded inputs.                            *)
(***************************************************************************)
DocumentTexts ==
    {NoneValue, Str(<< >>), Str(<<"the">>), Str(<<"Climate", "policy">>),
     Str(<<"Climate", "change", "change">>)}

SessionDocs ==
    {NoTextDoc, Doc(Str(<< >>)), Doc(Str(<<"climate", "policy">>)),
     Doc(Str(<<"policy", "the", "policy">>))}

SessionCorpora == SeqsUpTo(SessionDocs, MaxSession)

SessionTopNs == (0 - 1)..2

DocumentArgs ==
    [document_text_en : DocumentTexts,
     document_text_fr : DocumentTexts,
     session_corpus_en : SessionCorpora,
     session_corpus_fr : SessionCorpora,
     top_n : SessionTopNs]

InitDocument ==
    /\ pc = "start"
    /\ args \in DocumentArgs
    /\ ret = NoReturn
    /\ locals = << >>

CallExtractDocumentKeywords ==
    /\ pc = "start"
    /\ pc' = "done"
    /\ \E frame \in {extract_document_keywords_frame(
                          args.document_text_en, args.document_text_fr,
                          args.session_corpus_en, args.session_corpus_fr,
                          args.top_n)} :
           ret' = frame.ret /\ locals' = frame.locals
    /\ UNCHANGED args

NextDocument == CallExtractDocumentKeywords

SpecDocument == InitDocument /\ [][NextDocument]_vars

(***************************************************************************)
(* Properties of extract_keywords_tfidf (Spec).                            *)
(***************************************************************************)
Done == pc = "done"

ScoreEq(a, b) == a.num * b.den = b.num * a.den

\* the raw TF x IDF score of a document term, from the score dict
RawScore(term) ==
    LET i == CHOOSE k \in DOMAIN locals.tfidf_scores :
                 locals.tfidf_scores[k].term = term
    IN  locals.tfidf_scores[i].score

\* position of a term's first occurrence in the token sequence
FirstOccurrence(term) ==
    CHOOSE i \in DOMAIN locals.tokens :
        /\ locals.tokens[i] = term
        /\ \A j \in 1..(i - 1) : locals.tokens[j] # term

ReturnedWords == {ret.value[i].word : i \in DOMAIN ret.value}

OmittedWords == Range(locals.tokens) \ ReturnedWords

\* C1: for every top_n <= 0, any text with a surviving token, any corpus map
\* and any total_documents >= 1, extract_keywords_tfidf returns the empty list.
C1_NonPositiveTopNReturnsEmpty ==
    (/\ Done
     /\ args.top_n <= 0
     /\ args.total_documents >= 1
     /\ locals.tokens # << >>)
        => ret = Returned(<< >>)

\* C2: with total_documents = 0 the call never raises: it returns a list,
\* empty or with every weight zero.
C2_EmptyCorpusNeverRaises ==
    (Done /\ args.total_documents = 0)
        => /\ ret.exc = "none"
           /\ \A i \in DOMAIN ret.value : ret.value[i].weight = 0

\* C5: when a non-empty list is returned and some retained raw score is
\* positive, the largest weight is exactly 1.0 and is the first entry's; when
\* no retained raw score is positive, every weight is 0.0.
C5_MaxWeightIsOne ==
    (Done /\ ret.exc = "none" /\ ret.value # << >>)
        => /\ Len(locals.sorted_terms) = Len(ret.value)
           /\ IF \E i \in DOMAIN locals.sorted_terms :
                     locals.sorted_terms[i].score.num > 0
              THEN /\ \A i \in DOMAIN ret.value : ret.value[i].weight <= 1000
                   /\ ret.value[1].weight = 1000
              ELSE \A i \in DOMAIN ret.value : ret.value[i].weight = 0

\* a returned list led by weight 1.0 that also holds a weight strictly
\* between 0 and 1 and a negative retained raw score
C5_Witness ==
    /\ Done
    /\ ret.exc = "none"
    /\ Len(ret.value) = 3
    /\ ret.value[1].weight = 1000
    /\ ret.value[2].weight > 0
    /\ ret.value[2].weight < 1000
    /\ locals.sorted_terms[3].score.num < 0

\* C7: for top_n >= 1 the call returns exactly min(top_n, number of distinct
\* document terms) entries, in non-increasing order of raw score, and every
\* returned term's raw score is >= every omitted term's.
C7_TopNRankedByScore ==
    (Done /\ args.top_n >= 1)
        => /\ ret.exc = "none"
           /\ Len(ret.value) =
                  Min(args.top_n, Cardinality(Range(locals.tokens)))
           /\ \A i, j \in DOMAIN ret.value :
                  i < j => ScoreGeq(RawScore(ret.value[i].word),
                                    RawScore(ret.value[j].word))
           /\ \A w \in ReturnedWords : \A o \in OmittedWords :
                  ScoreGeq(RawScore(w), RawScore(o))

\* C9: in a returned list, two terms of equal raw score appear in the order
\* of their first occurrence in the token sequence, and of two tied terms of
\* which one is cut off by top_n, the earlier one is the one returned.
C9_TiesKeepFirstOccurrenceOrder ==
    (Done /\ ret.exc = "none")
        => /\ \A i, j \in DOMAIN ret.value :
                  (/\ i < j
                   /\ ScoreEq(RawScore(ret.value[i].word),
                              RawScore(ret.value[j].word)))
                      => FirstOccurrence(ret.value[i].word)
                             < FirstOccurrence(ret.value[j].word)
           /\ \A w \in ReturnedWords : \A o \in OmittedWords :
                  ScoreEq(RawScore(w), RawScore(o))
                      => FirstOccurrence(w) < FirstOccurrence(o)

\* three terms of equal positive raw score, two returned and one cut off
C9_Witness ==
    /\ Done
    /\ ret.exc = "none"
    /\ args.top_n = 2
    /\ Len(ret.value) = 2
    /\ ret.value[1].weight = 1000
    /\ ScoreEq(RawScore(ret.value[1].word), RawScore(ret.value[2].word))
    /\ \E o \in OmittedWords :
           ScoreEq(RawScore(ret.value[2].word), RawScore(o))

\* the corpus map with count 1 added for every document term it lacks
ExtendedWithOne(corpus_term_counts, terms) ==
    [t \in (DOMAIN corpus_term_counts) \cup terms |->
        IF t \in DOMAIN corpus_term_counts THEN corpus_term_counts[t] ELSE 1]

\* C10: for total_documents >= 1 the call returns the same list as the call
\* with the corpus map extended with count 1 for every document term missing
\* from it.
C10_FallbackIsCountOne ==
    (Done /\ args.total_documents >= 1)
        => ret = extract_keywords_tfidf(
                     args.document_text,
                     ExtendedWithOne(args.corpus_term_counts,
                                     Range(locals.tokens)),
                     args.total_documents, args.top_n)

\* a counted term ranked first and, ranked second with a weight strictly
\* between 0 and 1, a document term missing from the corpus map
C10_Witness ==
    /\ Done
    /\ ret.exc = "none"
    /\ args.total_documents >= 2
    /\ Len(ret.value) >= 2
    /\ ret.value[1].word \in DOMAIN args.corpus_term_counts
    /\ ret.value[2].word \notin DOMAIN args.corpus_term_counts
    /\ ret.value[2].weight > 0
    /\ ret.value[2].weight < 1000

(***************************************************************************)
(* Properties of calculate_inverse_document_frequency (SpecIdf).           *)
(***************************************************************************)
\* C3: for every document-frequency map and every total_documents > 0, every
\* value of the returned mapping is >= 0.
C3_IdfNonNegative ==
    (Done /\ args.total_documents > 0)
        => \A t \in DOMAIN ret.value : ret.value[t] >= 0

\* C3, amended: for every document-frequency map and every
\* total_documents > 0, the value of every term whose document count is at
\* most total_documents is >= 0.
C3_IdfNonNegativeWithinCorpus ==
    (Done /\ args.total_documents > 0)
        => \A t \in DOMAIN ret.value :
               args.corpus_term_counts[t] <= args.total_documents
                   => ret.value[t] >= 0

\* a map with a term in fewer documents than total_documents (positive
\* value) and a term in all of them (value 0)
C3_Witness ==
    /\ Done
    /\ args.total_documents > 0
    /\ \E t, u \in DOMAIN ret.value :
           /\ args.corpus_term_counts[t] < args.total_documents
           /\ ret.value[t] > 0
           /\ args.corpus_term_counts[u] = args.total_documents
           /\ ret.value[u] = 0

(***************************************************************************)
(* Properties of build_session_corpus (SpecCorpus).                        *)
(***************************************************************************)
\* every token a raw word can yield
AllTokens == {StripPossessive(Lower(w)) : w \in RawWords}

\* the documents with non-empty text whose token set contains the term
DocumentsContaining(session_documents, term) ==
    {i \in DOMAIN session_documents :
        /\ Truthy(DocGetText(session_documents[i]))
        /\ term \in Range(tokenize_text(DocGetText(session_documents[i]).str))}

\* C8: build_session_corpus maps each term to exactly the number of
\* documents with non-empty text whose token set contains it; every count is
\* in [1, len(documents)] and no term with count 0 is present.
C8_CorpusCountsDocuments ==
    Done =>
        /\ DOMAIN ret.value \subseteq AllTokens
        /\ \A term \in AllTokens :
               LET n == Cardinality(DocumentsContaining(
                            args.session_documents, term))
               IN  /\ (term \in DOMAIN ret.value) <=> (n > 0)
                   /\ term \in DOMAIN ret.value =>
                          /\ ret.value[term] = n
                          /\ ret.value[term] >= 1
                          /\ ret.value[term] <= Len(args.session_documents)

\* three documents, one skipped for its missing text and one repeating a
\* term, and a term counted in two documents
C8_Witness ==
    /\ Done
    /\ Len(args.session_documents) = 3
    /\ NoTextDoc \in Range(args.session_documents)
    /\ Doc(Str(<<"change", "policy", "change">>))
           \in Range(args.session_documents)
    /\ "policy" \in DOMAIN ret.value
    /\ ret.value["policy"] = 2
    /\ ret.value["change"] = 1

(***************************************************************************)
(* Properties of extract_document_keywords (SpecDocument).                 *)
(***************************************************************************)
\* the two languages: the position in the returned tuple, the text, the corpus
Languages ==
    {[k |-> 1, text |-> args.document_text_en,
      corpus |-> args.session_corpus_en],
     [k |-> 2, text |-> args.document_text_fr,
      corpus |-> args.session_corpus_fr]}

\* C4: every call of extract_document_keywords returns, and each weight in
\* each serialized result lies in [0, 1].
C4_WeightsInUnitInterval ==
    Done =>
        /\ ret.exc = "none"
        /\ \A k \in 1..2 :
               ~ret.value[k].is_none =>
                   \A i \in DOMAIN ret.value[k].json_array :
                       /\ ret.value[k].json_array[i].weight >= 0
                       /\ ret.value[k].json_array[i].weight <= 1000

\* an English result with weights 1.0 and 0.5 beside a French result with
\* weights 1.0 and 0.0
C4_Witness ==
    /\ Done
    /\ ret.exc = "none"
    /\ ~ret.value[1].is_none
    /\ ~ret.value[2].is_none
    /\ {ret.value[1].json_array[i].weight :
            i \in DOMAIN ret.value[1].json_array} = {1000, 500}
    /\ {ret.value[2].json_array[i].weight :
            i \in DOMAIN ret.value[2].json_array} = {1000, 0}

\* C6: for each language, the result is None whenever its text is
\* empty/absent, or its session corpus is empty, or the extracted keyword
\* list is empty; a result is never the serialization of an empty list, and
\* a result other than None is returned only when text and corpus were both
\* non-empty.
C6_NoResultSentinel ==
    (Done /\ ret.exc = "none")
        => \A l \in Languages :
               LET result == ret.value[l.k]
                   block == locals[l.k]
               IN  /\ (\/ ~Truthy(l.text)
                       \/ l.corpus = << >>
                       \/ (block.attempted /\ block.keywords_list = << >>))
                          => result = NoneValue
                   /\ result # json_dumps(<< >>)
                   /\ result # NoneValue
                          => (Truthy(l.text) /\ l.corpus # << >>)
                   /\ block.attempted
                          <=> (Truthy(l.text) /\ l.corpus # << >>)

\* English attempted on non-empty text and corpus, its keyword list empty
\* and its result None, beside a French result that is a non-empty array
C6_Witness ==
    /\ Done
    /\ ret.exc = "none"
    /\ Truthy(args.document_text_en)
    /\ args.session_corpus_en # << >>
    /\ locals[1].attempted
    /\ locals[1].keywords_list = << >>
    /\ ret.value[1] = NoneValue
    /\ ret.value[2] # NoneValue
    /\ ret.value[2].json_array # << >>

====
